---- MODULE Spec2Model ----
(***************************************************************************)
(* Model of the base85 codec of libs/stringencoders/python/b85.py:         *)
(* the two lookup tables, the struct-based and the manual-arithmetic       *)
(* encoders and decoders, and a caller that applies one of them to an      *)
(* input and then the inverse transform to the returned string (as         *)
(* B85Test.testDecode1 and the timing script do).                          *)
(*                                                                         *)
(* A Python 2 str is modelled as the sequence of the codes (ord) of its    *)
(* characters, each in 0..255.  A Python integer is modelled as a little-  *)
(* endian sequence of LongWidth base-16 digits, because the values the     *)
(* codec computes (up to 256 * (85^5 - 1) / 84) do not fit the integers of *)
(* the model checker.                                                      *)
(*                                                                         *)
(* What struct.pack('!I', n) does with n >= 2^32 depends on the            *)
(* interpreter: the struct module of Python 2.5 and 2.6 masks the value to *)
(* its low 32 bits (with a DeprecationWarning), that of Python 2.7 raises  *)
(* struct.error.  The model keeps both: structMasks is chosen when the     *)
(* module is loaded and never changes.                                     *)
(***************************************************************************)
EXTENDS Integers, Sequences, FiniteSets, TLC

VARIABLES gsCharToInt,  \* module global, reverse table (list of 256 ints)
          gsIntToChar,  \* module global, forward table (list of 85 characters)
          structMasks,  \* the interpreter's struct.pack masks out-of-range values
          pc,           \* "idle", "called" (first call made), "chained" (inverse applied)
          fn,           \* the function last called
          arg,          \* its argument
          exc,          \* the exception it raised, or "none"
          ret,          \* the string it returned (empty when it raised)
          lookupLog,    \* the table indices it looked up, in order
          prevFn,       \* the function whose return value arg is (chained call)
          prevArg       \* the argument of that function

vars == <<gsCharToInt, gsIntToChar, structMasks, pc, fn, arg, exc, ret,
          lookupLog, prevFn, prevArg>>

-----------------------------------------------------------------------------
(* Bounds of the model *)

\* number of whole 4-byte / 5-character groups in an input
MaxGroups == 2

\* base-16 digits kept for a Python integer (40 bits; the largest value the
\* codec can compute is 256 * 52822061 < 2^34)
LongWidth == 10

-----------------------------------------------------------------------------
(* The tables, b85.py lines 31-65 *)

gsCharToIntLiteral == <<
    256, 256, 256, 256, 256, 256, 256, 256, 256, 256, 256, 256,
    256, 256, 256, 256, 256, 256, 256, 256, 256, 256, 256, 256,
    256, 256, 256, 256, 256, 256, 256, 256, 256,   0, 256,   1,
      2,   3, 256,   4,   5,   6,   7,   8, 256,   9,  10,  11,
     12,  13,  14,  15,  16,  17,  18,  19,  20,  21,  22, 256,
     23,  24,  25,  26,  27,  28,  29,  30,  31,  32,  33,  34,
     35,  36,  37,  38,  39,  40,  41,  42,  43,  44,  45,  46,
     47,  48,  49,  50,  51,  52,  53,  54, 256,  55,  56,  57,
     58,  59,  60,  61,  62,  63,  64,  65,  66,  67,  68,  69,
     70,  71,  72,  73,  74,  75,  76,  77,  78,  79,  80,  81,
     82,  83,  84, 256, 256, 256, 256, 256, 256, 256, 256, 256,
    256, 256, 256, 256, 256, 256, 256, 256, 256, 256, 256, 256,
    256, 256, 256, 256, 256, 256, 256, 256, 256, 256, 256, 256,
    256, 256, 256, 256, 256, 256, 256, 256, 256, 256, 256, 256,
    256, 256, 256, 256, 256, 256, 256, 256, 256, 256, 256, 256,
    256, 256, 256, 256, 256, 256, 256, 256, 256, 256, 256, 256,
    256, 256, 256, 256, 256, 256, 256, 256, 256, 256, 256, 256,
    256, 256, 256, 256, 256, 256, 256, 256, 256, 256, 256, 256,
    256, 256, 256, 256, 256, 256, 256, 256, 256, 256, 256, 256,
    256, 256, 256, 256, 256, 256, 256, 256, 256, 256, 256, 256,
    256, 256, 256, 256, 256, 256, 256, 256, 256, 256, 256, 256,
    256, 256, 256, 256 >>

\* the characters of gsIntToChar, as their codes
gsIntToCharLiteral == <<
     33,  35,  36,  37,  39,  40,  41,  42,  43,  45,
     46,  47,  48,  49,  50,  51,  52,  53,  54,  55,
     56,  57,  58,  60,  61,  62,  63,  64,  65,  66,
     67,  68,  69,  70,  71,  72,  73,  74,  75,  76,
     77,  78,  79,  80,  81,  82,  83,  84,  85,  86,
     87,  88,  89,  90,  91,  93,  94,  95,  96,  97,
     98,  99, 100, 101, 102, 103, 104, 105, 106, 107,
    108, 109, 110, 111, 112, 113, 114, 115, 116, 117,
    118, 119, 120, 121, 122 >>

-----------------------------------------------------------------------------
(* Python integer arithmetic on base-16 digit sequences (least significant *)
(* digit first)                                                            *)

Min(S) == CHOOSE m \in S : \A n \in S : m <= n

LongZero == [i \in 1..LongWidth |-> 0] \o <<>>

\* x * m + a, for small non-negative m and a: digit i and the carry out of it
RECURSIVE MulAddDigits(_, _, _, _)
MulAddDigits(x, m, carry, i) ==
    IF i > LongWidth
    THEN <<>>
    ELSE LET t == x[i] * m + carry
         IN  <<t % 16>> \o MulAddDigits(x, m, t \div 16, i + 1)

LongMulAdd(x, m, a) == MulAddDigits(x, m, a, 1)

LongFromInt(n) == LongMulAdd(LongZero, 0, n)

\* x // d and x % d, for 0 < d < 2^27: long division from digit i down
RECURSIVE DivModDigits(_, _, _, _)
DivModDigits(x, d, rem, i) ==
    IF i = 0
    THEN [quot |-> <<>>, rem |-> rem]
    ELSE LET t == rem * 16 + x[i]
             r == DivModDigits(x, d, t % d, i - 1)
         IN  [quot |-> Append(r.quot, t \div d), rem |-> r.rem]

LongDivMod(x, d) == DivModDigits(x, d, 0, LongWidth)

\* the value of x as an integer of the model (x below 2^31)
RECURSIVE DigitsValue(_, _)
DigitsValue(x, i) ==
    IF i > LongWidth THEN 0 ELSE x[i] + 16 * DigitsValue(x, i + 1)

LongToInt(x) == DigitsValue(x, 1)

\* (x >> k) & 0xff, for k a multiple of 4
ShiftRightAnd255(x, k) == x[k \div 4 + 1] + 16 * x[k \div 4 + 2]

-----------------------------------------------------------------------------
(* Outcomes of a call *)

Returned(v, log) == [exc |-> "none", value |-> v, log |-> log]
Raised(e, log)   == [exc |-> e, value |-> <<>>, log |-> log]

-----------------------------------------------------------------------------
(* struct.unpack('!' + str(numchunks) + 'I', s) and struct.pack('!I', n) *)

\* UnpackUInt32 with the '!' of the format lost: the bytes in little-endian
\* (x86 native) order
UnpackUInt32_Native(b) ==
    << b[1] % 16, b[1] \div 16, b[2] % 16, b[2] \div 16,
       b[3] % 16, b[3] \div 16, b[4] % 16, b[4] \div 16 >>
    \o [i \in 1..(LongWidth - 8) |-> 0]

\* one network-order (big-endian) 32-bit unsigned integer from 4 bytes
UnpackUInt32(b) ==
    << b[4] % 16, b[4] \div 16, b[3] % 16, b[3] \div 16,
       b[2] % 16, b[2] \div 16, b[1] % 16, b[1] \div 16 >>
    \o [i \in 1..(LongWidth - 8) |-> 0]

\* unpack that reads numchunks integers and ignores what follows them
unpack_Lenient(numchunks, s) ==
    Returned([k \in 1..numchunks |-> UnpackUInt32(SubSeq(s, 4*k - 3, 4*k))], <<>>)

\* struct.error unless s holds exactly numchunks 4-byte integers
unpack(numchunks, s) ==
    IF Len(s) # 4 * numchunks
    THEN Raised("struct.error", <<>>)
    ELSE Returned([k \in 1..numchunks |-> UnpackUInt32(SubSeq(s, 4*k - 3, 4*k))], <<>>)

\* pack with the '!' of the format lost: the bytes in little-endian order
pack_Native(bsum) ==
    LET overflow == \E i \in 9..LongWidth : bsum[i] # 0
        bytes    == << bsum[2] * 16 + bsum[1], bsum[4] * 16 + bsum[3],
                      bsum[6] * 16 + bsum[5], bsum[8] * 16 + bsum[7] >>
    IN  IF overflow /\ ~structMasks
        THEN Raised("struct.error", <<>>)
        ELSE Returned(bytes, <<>>)

\* A value of 2^32 or more is out of range for 'I': struct.error, or, where the
\* interpreter's struct module still masks (structMasks), the low 32 bits.
pack(bsum) ==
    LET overflow == \E i \in 9..LongWidth : bsum[i] # 0
        bytes    == << bsum[8] * 16 + bsum[7], bsum[6] * 16 + bsum[5],
                      bsum[4] * 16 + bsum[3], bsum[2] * 16 + bsum[1] >>
    IN  IF overflow /\ ~structMasks
        THEN Raised("struct.error", <<>>)
        ELSE Returned(bytes, <<>>)

-----------------------------------------------------------------------------
(* The encoders *)

\* EncodeIndices with the last two digits in the wrong order
EncodeIndices_Swapped(x) ==
    << LongToInt(LongDivMod(x, 52200625).quot),
       LongDivMod(LongDivMod(x, 614125).quot, 85).rem,
       LongDivMod(LongDivMod(x, 7225).quot, 85).rem,
       LongDivMod(x, 85).rem,
       LongDivMod(LongDivMod(x, 85).quot, 85).rem >>

\* EncodeIndices with the "% 85" of the second digit forgotten
EncodeIndices_NoMod(x) ==
    << LongToInt(LongDivMod(x, 52200625).quot),
       LongToInt(LongDivMod(x, 614125).quot),
       LongDivMod(LongDivMod(x, 7225).quot, 85).rem,
       LongDivMod(LongDivMod(x, 85).quot, 85).rem,
       LongDivMod(x, 85).rem >>

\* the five indices into gsIntToChar computed for one integer
EncodeIndices(x) ==
    << LongToInt(LongDivMod(x, 52200625).quot),
       LongDivMod(LongDivMod(x, 614125).quot, 85).rem,
       LongDivMod(LongDivMod(x, 7225).quot, 85).rem,
       LongDivMod(LongDivMod(x, 85).quot, 85).rem,
       LongDivMod(x, 85).rem >>

\* EncodeChunk with the fifth parts.append forgotten
EncodeChunk_Short(x) ==
    LET idx == SubSeq(EncodeIndices(x), 1, 4)
    IN  Returned([k \in 1..4 |-> gsIntToChar[idx[k] + 1]], idx)

\* the five parts.append(gsIntToChar[...]) of one loop iteration; a list index
\* past the end of the table raises IndexError
EncodeChunk(x) ==
    LET idx == EncodeIndices(x)
        bad == {k \in 1..5 : idx[k] \notin 0..(Len(gsIntToChar) - 1)}
    IN  IF bad = {}
        THEN Returned([k \in 1..5 |-> gsIntToChar[idx[k] + 1]], idx)
        ELSE Raised("IndexError", SubSeq(idx, 1, Min(bad)))

RECURSIVE EncodeLoop(_, _, _)
EncodeLoop(xs, parts, log) ==
    IF xs = <<>>
    THEN Returned(parts, log)
    ELSE LET c == EncodeChunk(Head(xs))
         IN  IF c.exc # "none"
             THEN Raised(c.exc, log \o c.log)
             ELSE EncodeLoop(Tail(xs), parts \o c.value, log \o c.log)

b85_encode(s) ==
    LET numchunks == Len(s) \div 4
        u == unpack(numchunks, s)
    IN  IF u.exc # "none"
        THEN Raised(u.exc, <<>>)
        ELSE EncodeLoop(u.value, <<>>, <<>>)

RECURSIVE Encode2Loop(_, _, _, _)
Encode2Loop(s, i, parts, log) ==
    IF i >= Len(s)
    THEN Returned(parts, log)
    ELSE LET chunk == SubSeq(s, i + 1, IF i + 4 <= Len(s) THEN i + 4 ELSE Len(s))
         IN  IF Len(chunk) < 4
             THEN Raised("IndexError", log)      \* chunk[3] of a short slice
             ELSE LET x == LongMulAdd(LongMulAdd(LongMulAdd(LongFromInt(chunk[1]),
                                                            256, chunk[2]),
                                                 256, chunk[3]),
                                      256, chunk[4])
                      c == EncodeChunk(x)
                  IN  IF c.exc # "none"
                      THEN Raised(c.exc, log \o c.log)
                      ELSE Encode2Loop(s, i + 4, parts \o c.value, log \o c.log)

b85_encode2(s) == Encode2Loop(s, 0, <<>>, <<>>)

-----------------------------------------------------------------------------
(* The decoders *)

\* the inner loop, j = 0..4: bsum = 85*bsum + gsCharToInt[ord(s[i+j])];
\* s[i+j] past the end of s raises IndexError
RECURSIVE DecodeGroup(_, _, _, _, _)
DecodeGroup(s, i, j, bsum, log) ==
    IF j = 5
    THEN [exc |-> "none", bsum |-> bsum, log |-> log]
    ELSE IF i + j >= Len(s)
    THEN [exc |-> "IndexError", bsum |-> bsum, log |-> log]
    ELSE LET c   == s[i + j + 1]
             val == gsCharToInt[c + 1]
         IN  DecodeGroup(s, i, j + 1, LongMulAdd(bsum, 85, val), Append(log, c))

\* the four chr((bsum >> k) & 0xff) of b85_decode2
ShiftBytes(bsum) ==
    Returned(<< ShiftRightAnd255(bsum, 24), ShiftRightAnd255(bsum, 16),
                ShiftRightAnd255(bsum, 8),  ShiftRightAnd255(bsum, 0) >>, <<>>)

RECURSIVE DecodeLoop(_, _, _, _, _)
DecodeLoop(s, i, parts, log, usePack) ==
    IF i >= Len(s)
    THEN Returned(parts, log)
    ELSE LET g == DecodeGroup(s, i, 0, LongZero, log)
         IN  IF g.exc # "none"
             THEN Raised(g.exc, g.log)
             ELSE LET tmp == IF usePack THEN pack(g.bsum) ELSE ShiftBytes(g.bsum)
                  IN  IF tmp.exc # "none"
                      THEN Raised(tmp.exc, g.log)
                      ELSE DecodeLoop(s, i + 5, parts \o tmp.value, g.log, usePack)

b85_decode(s)  == DecodeLoop(s, 0, <<>>, <<>>, TRUE)

b85_decode2(s) == DecodeLoop(s, 0, <<>>, <<>>, FALSE)

-----------------------------------------------------------------------------
(* The inputs the caller draws from.  An input is up to MaxGroups whole     *)
(* groups followed by a possibly empty partial group.                       *)

ByteGroups ==
    { <<0, 0, 0, 0>>,            \* 0
      <<0, 0, 0, 1>>,            \* 1
      <<1, 2, 3, 4>>,            \* 0x01020304
      <<3, 28, 132, 176>>,       \* 85^4 - 1
      <<3, 28, 132, 177>>,       \* 85^4
      <<128, 0, 0, 0>>,          \* 2^31
      <<255, 255, 255, 255>> }   \* 2^32 - 1

ByteTails == { SubSeq(<<1, 2, 3, 4>>, 1, k) : k \in 0..3 }

TextGroups ==
    { <<33, 33, 33, 33, 33>>,    \* "!!!!!"  0
      <<33, 33, 33, 33, 35>>,    \* "!!!!#"  1
      <<33, 64, 82, 67, 46>>,    \* "!@RC."  0x01020304
      <<120, 60, 91, 48, 33>>,   \* "x<[0!"  2^32 - 1
      <<120, 60, 91, 48, 35>>,   \* "x<[0#"  2^32
      <<122, 122, 122, 122, 122>>, \* "zzzzz"  85^5 - 1
      <<33, 33, 33, 33, 32>>,    \* "!!!! "  a space, last
      <<33, 34, 33, 33, 33>>,    \* "!\"!!!" a double quote, second
      <<44, 33, 33, 33, 33>> }   \* ",!!!!"  a comma, first

TextTails == { SubSeq(<<33, 33, 33, 33>>, 1, k) : k \in 0..4 } \cup { <<32>> }

RECURSIVE Concat(_)
Concat(gs) == IF gs = <<>> THEN <<>> ELSE Head(gs) \o Concat(Tail(gs))

Inputs(groups, tails) ==
    { Concat(gs) \o t : gs \in UNION { [1..n -> groups] : n \in 0..MaxGroups },
                        t \in tails }

ByteInputs == Inputs(ByteGroups, ByteTails)
TextInputs == Inputs(TextGroups, TextTails)

Encoders == {"b85_encode", "b85_encode2"}
Decoders == {"b85_decode", "b85_decode2"}

-----------------------------------------------------------------------------
(* The caller *)

Apply(f, s) ==
    CASE f = "b85_encode"  -> b85_encode(s)
      [] f = "b85_encode2" -> b85_encode2(s)
      [] f = "b85_decode"  -> b85_decode(s)
      [] f = "b85_decode2" -> b85_decode2(s)

\* the reverse table with '&' (38) taken for the digit of '%' (37)
TableInit_Ampersand ==
    /\ gsCharToInt = [gsCharToIntLiteral EXCEPT ![39] = 3]
    /\ gsIntToChar = gsIntToCharLiteral

\* the module is loaded: the two list literals are bound to the globals
TableInit ==
    /\ gsCharToInt = gsCharToIntLiteral
    /\ gsIntToChar = gsIntToCharLiteral

Init ==
    /\ TableInit
    /\ structMasks \in BOOLEAN
    /\ pc = "idle"
    /\ fn = "none"
    /\ arg = <<>>
    /\ exc = "none"
    /\ ret = <<>>
    /\ lookupLog = <<>>
    /\ prevFn = "none"
    /\ prevArg = <<>>

\* a call of f on a fresh input s
Call(f, s) ==
    /\ pc = "idle"
    /\ pc' = "called"
    /\ \E r \in {Apply(f, s)} :       \* the outcome of the call
           /\ fn' = f
           /\ arg' = s
           /\ exc' = r.exc
           /\ ret' = r.value
           /\ lookupLog' = r.log
    /\ prevFn' = "none"
    /\ prevArg' = <<>>
    /\ UNCHANGED <<gsCharToInt, gsIntToChar, structMasks>>

\* a call of f on the string the previous call returned
CallOnResult(f, producers) ==
    /\ pc = "called"
    /\ fn \in producers
    /\ exc = "none"
    /\ pc' = "chained"
    /\ \E r \in {Apply(f, ret)} :     \* the outcome of the call
           /\ fn' = f
           /\ arg' = ret
           /\ exc' = r.exc
           /\ ret' = r.value
           /\ lookupLog' = r.log
    /\ prevFn' = fn
    /\ prevArg' = arg
    /\ UNCHANGED <<gsCharToInt, gsIntToChar, structMasks>>

\* the caller picks an input and calls one of the four functions on it
Encode  == pc = "idle" /\ \E s \in ByteInputs : Call("b85_encode", s)
Encode2 == pc = "idle" /\ \E s \in ByteInputs : Call("b85_encode2", s)
Decode  == pc = "idle" /\ \E s \in TextInputs : Call("b85_decode", s)
Decode2 == pc = "idle" /\ \E s \in TextInputs : Call("b85_decode2", s)

EncodeDecoded  == CallOnResult("b85_encode", Decoders)
Encode2Decoded == CallOnResult("b85_encode2", Decoders)
DecodeEncoded  == CallOnResult("b85_decode", Encoders)
Decode2Encoded == CallOnResult("b85_decode2", Encoders)

\* the caller is done with the result; the tables stay as they are
Reset ==
    /\ pc \in {"called", "chained"}
    /\ pc' = "idle"
    /\ fn' = "none"
    /\ arg' = <<>>
    /\ exc' = "none"
    /\ ret' = <<>>
    /\ lookupLog' = <<>>
    /\ prevFn' = "none"
    /\ prevArg' = <<>>
    /\ UNCHANGED <<gsCharToInt, gsIntToChar, structMasks>>

Next ==
    \/ Encode
    \/ Encode2
    \/ Decode
    \/ Decode2
    \/ EncodeDecoded
    \/ Encode2Decoded
    \/ DecodeEncoded
    \/ Decode2Encoded
    \/ Reset

Spec == Init /\ [][Next]_vars

-----------------------------------------------------------------------------
(* Vocabulary of the properties.  A group's value is computed here as the   *)
(* positional sum of its digits, in two base-65536 digits <<high, low>>.    *)

Sentinel == 256

AlphabetChars == { gsIntToChar[d + 1] : d \in 0..84 }

IsAlphabetText(t) == \A i \in 1..Len(t) : t[i] \in AlphabetChars

HasInvalidChar(t) == \E i \in 1..Len(t) : gsCharToInt[t[i] + 1] = Sentinel

\* the digit a character stands for, by the forward table
DigitOf(c) == CHOOSE d \in 0..84 : gsIntToChar[d + 1] = c

GroupsOf(t, n) == [k \in 1..(Len(t) \div n) |-> SubSeq(t, n * (k - 1) + 1, n * k)]

Wide(n) == << n \div 65536, n % 65536 >>

WideScale(d, w) == << d * w[1] + (d * w[2]) \div 65536, (d * w[2]) % 65536 >>

WideAdd(a, b) == << a[1] + b[1] + (a[2] + b[2]) \div 65536, (a[2] + b[2]) % 65536 >>

\* sum over i of digit[i] * 85^(4-i)
PositionalValue(g) ==
    WideAdd(WideScale(DigitOf(g[1]), Wide(85 * 85 * 85 * 85)),
    WideAdd(WideScale(DigitOf(g[2]), Wide(85 * 85 * 85)),
    WideAdd(WideScale(DigitOf(g[3]), Wide(85 * 85)),
    WideAdd(WideScale(DigitOf(g[4]), Wide(85)),
            Wide(DigitOf(g[5]))))))

Below2To32(w) == w[1] < 65536

BigEndianBytes(w) == << w[1] \div 256, w[1] % 256, w[2] \div 256, w[2] % 256 >>

AllGroupsBelow2To32(t) ==
    \A k \in 1..(Len(t) \div 5) : Below2To32(PositionalValue(GroupsOf(t, 5)[k]))

SomeGroupOverflows(t) ==
    \E k \in 1..(Len(t) \div 5) : ~Below2To32(PositionalValue(GroupsOf(t, 5)[k]))

-----------------------------------------------------------------------------
(* Properties *)

\* C1: byte-side round trip.  b85_encode succeeds on every buffer whose
\* length is a multiple of 4, and b85_decode applied to what it returned
\* returns exactly that buffer.
C1_ByteRoundTrip ==
    /\ (pc = "called" /\ fn = "b85_encode" /\ Len(arg) % 4 = 0) => exc = "none"
    /\ (pc = "chained" /\ prevFn = "b85_encode" /\ fn = "b85_decode")
          => (exc = "none" /\ ret = prevArg)

C1_Witness ==
    /\ pc = "chained" /\ prevFn = "b85_encode" /\ fn = "b85_decode"
    /\ prevArg = <<255, 255, 255, 255, 1, 2, 3, 4>>
    /\ ret = prevArg

\* C2 as stated: text-side round trip for every text of alphabet characters
\* whose length is a multiple of 5: b85_decode succeeds on it and b85_encode
\* applied to what it returned returns exactly that text.
C2_TextRoundTripAnyGroup ==
    /\ (pc = "called" /\ fn = "b85_decode" /\ Len(arg) % 5 = 0 /\ IsAlphabetText(arg))
          => exc = "none"
    /\ (pc = "chained" /\ prevFn = "b85_decode" /\ fn = "b85_encode"
        /\ IsAlphabetText(prevArg))
          => (exc = "none" /\ ret = prevArg)

\* C2 amended: the text-side round trip holds for the texts of alphabet
\* characters, of a length that is a multiple of 5, whose every group has a
\* positional value below 2^32.
C2_TextRoundTrip ==
    /\ (pc = "called" /\ fn = "b85_decode" /\ Len(arg) % 5 = 0 /\ IsAlphabetText(arg)
        /\ AllGroupsBelow2To32(arg))
          => exc = "none"
    /\ (pc = "chained" /\ prevFn = "b85_decode" /\ fn = "b85_encode"
        /\ IsAlphabetText(prevArg) /\ AllGroupsBelow2To32(prevArg))
          => (exc = "none" /\ ret = prevArg)

C2_Witness ==
    /\ pc = "chained" /\ prevFn = "b85_decode" /\ fn = "b85_encode"
    /\ prevArg = <<120, 60, 91, 48, 33, 33, 64, 82, 67, 46>>
    /\ ret = prevArg

\* C3: invalid-character rejection.  A decode of a text whose length is a
\* multiple of 5 and that holds a character whose reverse-table entry is the
\* sentinel fails and returns no byte buffer.
C3_InvalidCharacterRejected ==
    (pc = "called" /\ fn = "b85_decode" /\ Len(arg) % 5 = 0 /\ HasInvalidChar(arg))
        => (exc # "none" /\ ret = <<>>)

UnevenCall ==
    /\ pc = "called"
    /\ \/ fn = "b85_encode" /\ Len(arg) % 4 # 0
       \/ fn = "b85_decode" /\ Len(arg) % 5 # 0

\* C4 as stated: length rejection.  Encoding a buffer whose length is not a
\* multiple of 4, or decoding a text whose length is not a multiple of 5,
\* fails before any table lookup and returns nothing.
C4_LengthRejectedBeforeLookup ==
    UnevenCall => (exc # "none" /\ ret = <<>> /\ lookupLog = <<>>)

\* C4 amended: such a call fails and returns nothing.  b85_encode fails in
\* unpack, before any table lookup.  b85_decode fails only when it reaches
\* the missing character, after it has looked up every character of the
\* text, unless a whole group before that was out of range for pack.
C4_LengthRejected ==
    UnevenCall =>
        /\ exc # "none"
        /\ ret = <<>>
        /\ fn = "b85_encode" => (exc = "struct.error" /\ lookupLog = <<>>)
        /\ fn = "b85_decode" =>
              \/ exc = "IndexError" /\ lookupLog = arg
              \/ /\ exc = "struct.error"
                 /\ ~structMasks
                 /\ lookupLog # <<>>
                 /\ Len(lookupLog) % 5 = 0

C4_Witness ==
    /\ pc = "called" /\ fn = "b85_decode"
    /\ arg = <<33, 33, 33, 33, 35, 33>>
    /\ exc = "IndexError" /\ ret = <<>> /\ Len(lookupLog) = 6

\* C5: overflow rejection.  A decode, by b85_decode or b85_decode2, of a
\* text of alphabet characters with a group whose positional value is 2^32
\* or more fails.
C5_OverflowRejected ==
    (pc = "called" /\ fn \in Decoders /\ Len(arg) % 5 = 0 /\ IsAlphabetText(arg)
     /\ SomeGroupOverflows(arg))
        => exc # "none"

\* C6: the tables are mutually inverse.  Every digit maps through the
\* forward and then the reverse table to itself; every character code whose
\* reverse entry is not the sentinel has an entry in 0..84 that the forward
\* table maps back to it; exactly 85 codes are valid.
C6_TableInverse ==
    /\ Len(gsCharToInt) = 256
    /\ Len(gsIntToChar) = 85
    /\ \A d \in 0..84 : gsCharToInt[gsIntToChar[d + 1] + 1] = d
    /\ \A c \in 0..255 :
          gsCharToInt[c + 1] # Sentinel =>
              /\ gsCharToInt[c + 1] \in 0..84
              /\ gsIntToChar[gsCharToInt[c + 1] + 1] = c
    /\ Cardinality({c \in 0..255 : gsCharToInt[c + 1] # Sentinel}) = 85

\* a decoder has looked up, in the reverse table, characters an encoder took
\* from the forward table
C6_Witness ==
    /\ pc = "chained" /\ prevFn \in Encoders /\ fn \in Decoders
    /\ Len(lookupLog) = 10
    /\ \A i \in 1..Len(lookupLog) :
          /\ gsCharToInt[lookupLog[i] + 1] \in 0..84
          /\ gsIntToChar[gsCharToInt[lookupLog[i] + 1] + 1] = lookupLog[i]

\* C7: decoder value.  For a text of alphabet characters whose groups all
\* have a positional value below 2^32, b85_decode returns, group after group
\* in input order, the 4 bytes of the value, most significant first; "!!!!#"
\* decodes to 0, 0, 0, 1.
C7_DecoderValue ==
    (pc # "idle" /\ fn = "b85_decode" /\ Len(arg) % 5 = 0 /\ IsAlphabetText(arg)
     /\ AllGroupsBelow2To32(arg))
        => /\ exc = "none"
           /\ ret = Concat([k \in 1..(Len(arg) \div 5) |->
                              BigEndianBytes(PositionalValue(GroupsOf(arg, 5)[k]))])
           /\ arg = <<33, 33, 33, 33, 35>> => ret = <<0, 0, 0, 1>>

C7_Witness ==
    /\ pc = "called" /\ fn = "b85_decode"
    /\ arg = <<33, 64, 82, 67, 46, 120, 60, 91, 48, 33>>
    /\ ret = <<1, 2, 3, 4, 255, 255, 255, 255>>

EncodeCall == pc # "idle" /\ fn = "b85_encode" /\ Len(arg) % 4 = 0

\* the indices b85_encode computed, all in 0..84, the first of every group at
\* most top, and the characters it returned all of the alphabet
ClosedWithFirstAtMost(top) ==
    /\ exc = "none"
    /\ Len(lookupLog) = 5 * (Len(arg) \div 4)
    /\ \A i \in 1..Len(lookupLog) : lookupLog[i] \in 0..84
    /\ \A k \in 1..(Len(arg) \div 4) : lookupLog[5 * (k - 1) + 1] <= top
    /\ \A i \in 1..Len(ret) : ret[i] \in AlphabetChars

\* C8 as stated: alphabet closure, the first index of a group at most 50.
C8_AlphabetClosureFirstAtMost50 == EncodeCall => ClosedWithFirstAtMost(50)

\* C8 amended: for every 4-byte group each of the five indices b85_encode
\* computes lies in 0..84, the first being at most 82 (the quotient of
\* 2^32 - 1 by 85^4), so the encoder never indexes outside gsIntToChar and
\* every character it returns is one of the alphabet.
C8_AlphabetClosure == EncodeCall => ClosedWithFirstAtMost(82)

C8_Witness ==
    /\ pc = "called" /\ fn = "b85_encode"
    /\ arg = <<255, 255, 255, 255>>
    /\ lookupLog = <<82, 23, 54, 12, 0>>
    /\ ret = <<120, 60, 91, 48, 33>>

\* C9: length law.  b85_encode of a buffer of 4n bytes returns 5n
\* characters, and a b85_decode of a text of 5n characters that succeeds
\* returns 4n bytes.
C9_LengthLaw ==
    /\ (pc # "idle" /\ fn = "b85_encode" /\ Len(arg) % 4 = 0)
          => (exc = "none" /\ 4 * Len(ret) = 5 * Len(arg))
    /\ (pc # "idle" /\ fn = "b85_decode" /\ Len(arg) % 5 = 0 /\ exc = "none")
          => 5 * Len(ret) = 4 * Len(arg)

\* b85_decode returned 8 bytes for the 10 characters b85_encode returned for them
C9_Witness ==
    /\ pc = "chained" /\ prevFn = "b85_encode" /\ fn = "b85_decode"
    /\ Len(prevArg) = 8 /\ Len(arg) = 10 /\ exc = "none" /\ Len(ret) = 8

OtherVariant(f) ==
    CASE f = "b85_encode"  -> "b85_encode2"
      [] f = "b85_encode2" -> "b85_encode"
      [] f = "b85_decode"  -> "b85_decode2"
      [] f = "b85_decode2" -> "b85_decode"

\* C10: variant equivalence.  On every input the manual-arithmetic variant
\* of the function called has the same outcome as the function: both return
\* the same string, or both fail.
C10_VariantEquivalence ==
    pc = "called" =>
        LET other == Apply(OtherVariant(fn), arg)
        IN  \/ exc = "none" /\ other.exc = "none" /\ ret = other.value
            \/ exc # "none" /\ other.exc # "none"

====
